---- MODULE Spec2Model ----
(***************************************************************************)
(* Apply4Me backend: the four near-duplicate Express servers of the        *)
(* repository (src/server.js, src/unnamed/part_000 lines 1-251 and         *)
(* 253-324, src/unnamed/part_001), each a POST /api/submit handler in      *)
(* front of a mongoose Submission collection.                              *)
(*                                                                         *)
(* Text is a tuple of one-character strings, so that trim() and the email  *)
(* regular expression are computed character by character.                 *)
(***************************************************************************)
EXTENDS Integers, Sequences, FiniteSets, TLC

\* ------------------------------------------------------------------ bounds
\* Requests the clients send in one run.
MaxRequests == 2
\* Milliseconds the wall clock (Date.now) may advance in one run.
MaxClock == 1

\* ---------------------------------------------------------------- variants
\* The four programs of the repository.
VServer == "server.js"
VRender == "part_000[1-251]"
VLocal  == "part_000[253-324]"
VUri    == "part_001"
Variants == {VServer, VRender, VLocal, VUri}

\* multer.memoryStorage with a fileSize limit (VRender) against
\* multer.diskStorage without one (the other three).
MemoryStorage(v) == v = VRender
fileSize == 5 * 1024 * 1024

\* ------------------------------------------------------------------ values
\* A field of req.body: undefined, a string, or (extended urlencoded /
\* JSON bodies) a non-string value such as name[first]=Jane.
Undefined == [kind |-> "undefined"]
Str(s) == [kind |-> "string", s |-> s]
Obj == [kind |-> "object"]

IsStr(v) == v.kind = "string"
\* JavaScript truthiness of a body field: !v is true for undefined and "".
Truthy(v) == v.kind = "object" \/ (v.kind = "string" /\ v.s # <<>>)

WhiteSpace == {" "}

RECURSIVE TrimStart(_)
TrimStart(s) ==
  IF s # <<>> /\ Head(s) \in WhiteSpace THEN TrimStart(Tail(s)) ELSE s

RECURSIVE TrimEnd(_)
TrimEnd(s) ==
  IF s # <<>> /\ s[Len(s)] \in WhiteSpace
  THEN TrimEnd(SubSeq(s, 1, Len(s) - 1))
  ELSE s

\* String.prototype.trim
trim(s) == TrimEnd(TrimStart(s))

\* [^\s@]+ : a non-empty run without white space and without "@".
NonSpaceNonAt(s) ==
  /\ s # <<>>
  /\ \A k \in 1..Len(s) : s[k] \notin WhiteSpace /\ s[k] # "@"

\* emailRegex.test(s) for /^[^\s@]+@[^\s@]+\.[^\s@]+$/
emailRegex(s) ==
  \E i \in 1..Len(s) : \E j \in 1..Len(s) :
    /\ i < j
    /\ s[i] = "@"
    /\ s[j] = "."
    /\ NonSpaceNonAt(SubSeq(s, 1, i - 1))
    /\ NonSpaceNonAt(SubSeq(s, i + 1, j - 1))
    /\ NonSpaceNonAt(SubSeq(s, j + 1, Len(s)))


\* -------------------------------------------------------------------- state
VARIABLES
  variant,     \* which of the four programs runs
  NODE_ENV,    \* process.env.NODE_ENV
  MONGO_URI,   \* whether process.env.MONGO_URI is set
  proc,        \* "boot" | "running" | "exited"
  exitCode,    \* argument of process.exit, 0 while the process lives
  connect,     \* the mongoose.connect promise: "none" | "pending" | "resolved" | "rejected"
  readyState,  \* mongoose.connection.readyState: 0 disconnected, 1 connected, 2 connecting
  store,       \* the Submission collection: a set of documents
  nextId,      \* ObjectIds handed out so far
  clock,       \* the last value read from Date.now()
  reqs         \* the requests received, in order of arrival, with their handling state

vars == <<variant, NODE_ENV, MONGO_URI, proc, exitCode, connect, readyState,
          store, nextId, clock, reqs>>

env == <<variant, NODE_ENV, MONGO_URI>>

\* ------------------------------------------------------------------- inputs
SUBMIT == "POST /api/submit"
HEALTH == "GET /api/health"
TEST   == "GET /api/test"
ROOT   == "GET /"
NOWHERE == "GET /nowhere"
Routes == {SUBMIT, HEALTH, TEST, ROOT, NOWHERE}

NoUpload == [kind |-> "none"]
\* A file part of a multipart body: the form field it came in and its size.
FilePart(fieldname, size) ==
  [kind |-> "file", fieldname |-> fieldname, originalname |-> "cv.pdf",
   mimetype |-> "application/pdf", size |-> size, buffer |-> "bytes"]

Jane == <<"J">>
JaneAtExample == <<"j", "@", "e", ".", "c">>

Form(name, email, part) ==
  [body |-> [name |-> name, email |-> email, mobile |-> Undefined,
             message |-> Undefined],
   part |-> part]

\* The requests of the concurrent runs: a complete form without a file, one
\* with a missing name, one with a non-string name, and a complete form with
\* a file over the limit.
Forms ==
  {Form(Str(Jane), Str(JaneAtExample), NoUpload),
   Form(Undefined, Str(JaneAtExample), NoUpload),
   Form(Obj, Str(JaneAtExample), NoUpload),
   Form(Str(Jane), Str(JaneAtExample), FilePart("resume", fileSize + 1))}

\* The requests of the single-request runs: every combination of these
\* fields and file parts.
FormNames ==
  {Undefined, Obj, Str(<<>>), Str(<<" ">>), Str(Jane), Str(<<" ", "J", " ">>)}
FormEmails ==
  {Undefined, Obj, Str(<<>>), Str(<<" ">>),
   Str(<<"j">>),
   Str(<<"j", "@", "e">>),
   Str(<<"@", "e", ".", "c">>),
   Str(<<"j", "@", ".", "c">>),
   Str(<<"j", "@", "e", ".">>),
   Str(<<"j", "@", "@", "e", ".", "c">>),
   Str(<<"j", " ", "@", "e", ".", "c">>),
   Str(JaneAtExample),
   Str(<<"j", "@", "e", ".", ".", "c">>),
   Str(<<"j", "@", "e", ".", "c", "@">>),
   Str(<<" ", "j", "@", "e", ".", "c">>),
   Str(<<"j", "@", "e", ".", "c", " ">>)}
FormMobiles == {Undefined, Obj, Str(<<>>), Str(<<" ", "7", " ">>)}
FormMessages == {Undefined, Str(<<"h", "i", " ">>)}
FormBodies ==
  [name : FormNames, email : FormEmails, mobile : FormMobiles,
   message : FormMessages]
FormUploads ==
  {NoUpload, FilePart("resume", 1), FilePart("resume", fileSize),
   FilePart("resume", fileSize + 1), FilePart("avatar", 1)}
AllForms == [body : FormBodies, part : FormUploads]

EmptyBody ==
  [name |-> Undefined, email |-> Undefined, mobile |-> Undefined,
   message |-> Undefined]

\* ----------------------------------------------------------------- requests
NoDoc == [kind |-> "none"]
NoErr == [name |-> "none", message |-> "none"]
NoBody == [kind |-> "none"]

NewRequest(route, body, upload) ==
  [route |-> route, body |-> body, upload |-> upload, file |-> NoUpload,
   pc |-> "received", sent |-> 0, status |-> 0, resBody |-> NoBody,
   doc |-> NoDoc, err |-> NoErr]

\* res.status(status).json(body): one more response on the wire.
Send(r, status, body) ==
  [r EXCEPT !.sent = @ + 1, !.status = status, !.resBody = body, !.pc = "done"]

TypeOK ==
  /\ variant \in Variants
  /\ NODE_ENV \in {"development", "production"}
  /\ MONGO_URI \in BOOLEAN
  /\ proc \in {"boot", "running", "exited"}
  /\ exitCode \in {0, 1}
  /\ connect \in {"none", "pending", "resolved", "rejected"}
  /\ readyState \in {0, 1, 2}
  /\ nextId \in 0..MaxRequests
  /\ clock \in 0..MaxClock
  /\ Len(reqs) <= MaxRequests
  /\ \A i \in 1..Len(reqs) :
       /\ reqs[i].route \in Routes
       /\ reqs[i].pc \in {"saving", "saved", "rejected", "done"}

Init ==
  /\ variant \in Variants
  /\ NODE_ENV \in {"development", "production"}
  /\ MONGO_URI \in BOOLEAN
  /\ proc = "boot"
  /\ exitCode = 0
  /\ connect = "none"
  /\ readyState = 0
  /\ store = {}
  /\ nextId = 0
  /\ clock = 0
  /\ reqs = <<>>

\* ------------------------------------------------------------------ startup
\* Whether the script stops at its MONGO_URI check before connecting.
ChecksUri(v) == v = VUri

\* Whether the catch of mongoose.connect(...) calls process.exit(1).
ExitsOnConnectError(v) == v \in {VServer, VRender, VUri}

\* The top-level script: the MONGO_URI check (part_001), mongoose.connect,
\* app.listen.
Boot ==
  /\ proc = "boot"
  /\ IF ChecksUri(variant) /\ ~MONGO_URI
     THEN /\ proc' = "exited"
          /\ exitCode' = 1
          /\ UNCHANGED <<connect, readyState>>
     ELSE /\ proc' = "running"
          /\ connect' = "pending"
          /\ readyState' = 2
          /\ UNCHANGED exitCode
  /\ UNCHANGED <<env, store, nextId, clock, reqs>>

\* .then of mongoose.connect: the initial connection is established.
ConnectResolved ==
  /\ proc = "running"
  /\ connect = "pending"
  /\ MONGO_URI
  /\ connect' = "resolved"
  /\ readyState' = 1
  /\ UNCHANGED <<env, proc, exitCode, store, nextId, clock, reqs>>

\* .catch of mongoose.connect: no URI to open, or the store is unreachable.
ConnectRejected ==
  /\ proc = "running"
  /\ connect = "pending"
  /\ connect' = "rejected"
  /\ readyState' = 0
  /\ IF ExitsOnConnectError(variant)
     THEN proc' = "exited" /\ exitCode' = 1
     ELSE UNCHANGED <<proc, exitCode>>
  /\ UNCHANGED <<env, store, nextId, clock, reqs>>

\* ------------------------------------------------------------------ arrival
\* app.listen accepts requests as soon as the script has run. A request is
\* recorded when its middleware and handler run.
Accepting(max) == proc = "running" /\ Len(reqs) < max

\* Date.now() read after the last read: time has passed, or not.
Later(t) == t..MaxClock

Development == NODE_ENV = "development"

\* ----------------------------------------------------- fallback responses
\* app.use((err, req, res, next) => ...) of part_000; the other programs
\* register none and get Express's own error page, also a 500.
ErrorMiddleware(r, err) ==
  IF variant = VRender
  THEN Send(r, 500,
            IF Development
            THEN [error |-> "Internal server error", details |-> err.message]
            ELSE [error |-> "Internal server error"])
  ELSE Send(r, 500, [html |-> err.name])

\* app.use((req, res) => ...404) of part_000; Express's own 404 page elsewhere.
NotFoundResponse(r) ==
  IF variant = VRender
  THEN Send(r, 404, [error |-> "Route not found"])
  ELSE Send(r, 404, [html |-> "Cannot GET"])

\* ------------------------------------------------------------------- upload
MulterError(message) == [name |-> "MulterError", message |-> message]
ENOENT == [name |-> "Error", message |-> "ENOENT: no such file or directory"]

\* req.file as the storage engine leaves it: the bytes in memory, or the path
\* "uploads/" + Date.now() + "_" + originalname on disk.
StoredFile(v, part, now) ==
  IF MemoryStorage(v)
  THEN [kind |-> "file", originalname |-> part.originalname,
        mimetype |-> part.mimetype, size |-> part.size,
        buffer |-> part.buffer]
  ELSE [kind |-> "file", originalname |-> part.originalname,
        mimetype |-> part.mimetype, size |-> part.size,
        path |-> [dir |-> "uploads/", ts |-> now, name |-> part.originalname]]

\* upload, had multer been configured without limits as in the other programs.
uploadNoLimit(v, part) ==
  IF part.kind = "none" THEN {NoErr}
  ELSE IF part.fieldname # "resume" THEN {MulterError("Unexpected field")}
  ELSE IF MemoryStorage(v) THEN {NoErr}
  ELSE {NoErr, ENOENT}

\* The errors upload.single("resume") may pass to next(err) for the request's
\* file part; NoErr when it calls the handler.
upload(v, part) ==
  IF part.kind = "none" THEN {NoErr}
  ELSE IF part.fieldname # "resume" THEN {MulterError("Unexpected field")}
  ELSE IF MemoryStorage(v)
       THEN IF part.size > fileSize
            THEN {MulterError("File too large")}
            ELSE {NoErr}
       \* diskStorage: the write fails when uploads/ does not exist.
       ELSE {NoErr, ENOENT}

\* ---------------------------------------------------------- POST /api/submit
TypeError == [name |-> "TypeError", message |-> "trim is not a function"]

ValidationFailed(details, field) ==
  [kind |-> "respond", status |-> 400,
   body |-> [error |-> "Validation failed", details |-> details,
             field |-> field]]
Throw(err) == [kind |-> "throw", err |-> err]
Proceed == [kind |-> "proceed"]

\* Lines 116-153 of part_000, top to bottom: the presence checks, the regular
\* expression on the untrimmed email, then the trims of submissionData.
\* x.trim() on a truthy non-string throws a TypeError.
Validate(body) ==
  IF ~Truthy(body.name)
  THEN ValidationFailed("Name is required and cannot be empty", "name")
  ELSE IF ~IsStr(body.name) THEN Throw(TypeError)
  ELSE IF trim(body.name.s) = <<>>
  THEN ValidationFailed("Name is required and cannot be empty", "name")
  ELSE IF ~Truthy(body.email)
  THEN ValidationFailed("Email is required and cannot be empty", "email")
  ELSE IF ~IsStr(body.email) THEN Throw(TypeError)
  ELSE IF trim(body.email.s) = <<>>
  THEN ValidationFailed("Email is required and cannot be empty", "email")
  ELSE IF ~emailRegex(body.email.s)
  THEN ValidationFailed("Please enter a valid email address", "email")
  ELSE IF Truthy(body.mobile) /\ ~IsStr(body.mobile) THEN Throw(TypeError)
  ELSE IF Truthy(body.message) /\ ~IsStr(body.message) THEN Throw(TypeError)
  ELSE Proceed

\* The programs with no validation go straight to new Submission(...).
Validation(v, body) == IF v = VRender THEN Validate(body) ELSE Proceed

\* mobile ? mobile.trim() : ""
TrimOrEmpty(x) == IF Truthy(x) THEN Str(trim(x.s)) ELSE Str(<<>>)

\* A String path of the schema given a value: strings are kept, a
\* non-string is a cast error and leaves the path unset.
CastString(x) == IF IsStr(x) THEN x ELSE Undefined

\* new Submission(...): the document as built by the handler, with the
\* _id mongoose generates and the createdAt default.
Submission(v, body, file, id, now) ==
  IF v = VRender
  THEN [_id |-> id,
        name |-> Str(trim(body.name.s)),
        email |-> Str(trim(body.email.s)),
        mobile |-> TrimOrEmpty(body.mobile),
        message |-> TrimOrEmpty(body.message),
        resume |-> IF file.kind = "file"
                   THEN [kind |-> "file", data |-> file.buffer,
                         contentType |-> file.mimetype,
                         originalName |-> file.originalname]
                   ELSE Undefined,
        createdAt |-> now]
  ELSE [_id |-> id,
        name |-> CastString(body.name),
        email |-> CastString(body.email),
        mobile |-> CastString(body.mobile),
        message |-> CastString(body.message),
        resumePath |-> IF file.kind = "file"
                       THEN [kind |-> "path", path |-> file.path]
                       ELSE Str(<<>>),
        createdAt |-> now]

\* The paths mongoose's validation rejects at save(): required paths that are
\* empty (part_000's schema), and paths whose value could not be cast.
InvalidPaths(v, body, doc) ==
  {f \in {"name", "email", "mobile", "message"} :
     \/ body[f].kind = "object"
     \/ v = VRender /\ f \in {"name", "email"} /\ ~Truthy(doc[f])}

ValidationError(paths) ==
  [name |-> "ValidationError", message |-> "Submission validation failed",
   errors |-> paths]
MongoServerError == [name |-> "MongoServerError", message |-> "write failed"]
MongooseError ==
  [name |-> "MongooseError", message |-> "buffering timed out after 10000ms"]

\* SubmitCatch, had the "Database error" branch of part_000 no return: the
\* "Server error" response is sent as well.
SubmitCatchFallThrough(r, err) ==
  IF variant = VRender /\ err.name \in {"MongoError", "MongoServerError"}
  THEN Send(Send(r, 500, [error |-> "Database error"]),
            500, [error |-> "Server error"])
  ELSE Send(r, 500, [error |-> "Server error"])

\* The catch block of the handler.
SubmitCatch(r, err) ==
  IF variant = VRender
  THEN IF err.name = "ValidationError"
       THEN Send(r, 400, [error |-> "Database validation failed",
                          details |-> err.message, fields |-> err.errors])
       ELSE IF err.name \in {"MongoError", "MongoServerError"}
       THEN Send(r, 500, [error |-> "Database error",
                          details |-> IF Development THEN err.message
                                      ELSE "Database connection issue"])
       ELSE Send(r, 500, [error |-> "Server error",
                          details |-> IF Development THEN err.message
                                      ELSE "Internal server error"])
  ELSE Send(r, 500, [error |-> "Server error"])

\* Date.now() as the diskStorage filename callback reads it; the clock is not
\* read when no file is written to disk.
FilenameTime(v, part, err, t) ==
  IF part.kind = "file" /\ err = NoErr /\ ~MemoryStorage(v)
  THEN Later(t)
  ELSE {t}

\* A POST /api/submit arrives: upload.single("resume"), then the handler up
\* to its await (validation, document construction, save()), or the fallback
\* error handler when the upload fails.
Submit(forms, max) ==
  /\ Accepting(max)
  /\ \E form \in forms : \E err \in upload(variant, form.part) :
     \E t1 \in FilenameTime(variant, form.part, err, clock) :
     \E t2 \in Later(t1) :
       LET body == form.body
           part == form.part
           r0 == NewRequest(SUBMIT, body, part)
           r == IF part.kind = "none" THEN r0
                ELSE [r0 EXCEPT !.file = StoredFile(variant, part, t1)]
           v == Validation(variant, body)
       IN IF err # NoErr
          THEN /\ reqs' = Append(reqs,
                    ErrorMiddleware([r0 EXCEPT !.err = err], err))
               /\ clock' = clock
               /\ UNCHANGED nextId
          ELSE IF v.kind = "respond"
          THEN /\ reqs' = Append(reqs, Send(r, v.status, v.body))
               /\ clock' = t1
               /\ UNCHANGED nextId
          ELSE IF v.kind = "throw"
          THEN /\ reqs' = Append(reqs,
                    SubmitCatch([r EXCEPT !.err = v.err], v.err))
               /\ clock' = t1
               /\ UNCHANGED nextId
          ELSE /\ nextId' = nextId + 1
               /\ clock' = t2
               /\ reqs' = Append(reqs,
                    [r EXCEPT !.pc = "saving",
                              !.doc = Submission(variant, body, r.file,
                                                 nextId + 1, t2)])
  /\ UNCHANGED <<env, proc, exitCode, connect, readyState, store>>

\* Two documents of the same applicant.
SameApplicant(d, e) == d.name = e.name /\ d.email = e.email

\* Insert, had save() skipped an applicant already in the collection.
InsertDedup(coll, doc) ==
  IF \E d \in coll : SameApplicant(d, doc) THEN coll ELSE coll \cup {doc}

\* Insert, had save() been an upsert keyed on the applicant.
InsertUpsert(coll, doc) ==
  {d \in coll : ~SameApplicant(d, doc)} \cup {doc}

\* What save() does to the collection when the write goes through.
Insert(coll, doc) == coll \cup {doc}

\* newSubmission.save() settles: validation, then the write, which mongoose
\* buffers while the connection is not established.
Save(i) ==
  /\ proc = "running"
  /\ reqs[i].route = SUBMIT
  /\ reqs[i].pc = "saving"
  /\ LET r == reqs[i]
         bad == InvalidPaths(variant, r.body, r.doc)
     IN IF bad # {}
        THEN /\ reqs' = [reqs EXCEPT ![i] =
                  [r EXCEPT !.pc = "rejected", !.err = ValidationError(bad)]]
             /\ UNCHANGED store
        ELSE IF readyState = 1
        THEN \/ /\ store' = Insert(store, r.doc)
                /\ reqs' = [reqs EXCEPT ![i] = [r EXCEPT !.pc = "saved"]]
             \/ /\ reqs' = [reqs EXCEPT ![i] =
                     [r EXCEPT !.pc = "rejected", !.err = MongoServerError]]
                /\ UNCHANGED store
        ELSE /\ reqs' = [reqs EXCEPT ![i] =
                  [r EXCEPT !.pc = "rejected", !.err = MongooseError]]
             /\ UNCHANGED store
  /\ UNCHANGED <<env, proc, exitCode, connect, readyState, nextId, clock>>

\* The 201 body.
Created(v, doc) ==
  IF v = VRender
  THEN [success |-> TRUE, message |-> "Submission saved successfully",
        submissionId |-> doc._id]
  ELSE [message |-> "Submission saved successfully"]

\* The handler after its await: the 201, or the catch block.
SubmitDone(i) ==
  /\ proc = "running"
  /\ reqs[i].route = SUBMIT
  /\ reqs[i].pc \in {"saved", "rejected"}
  /\ LET r == reqs[i]
     IN reqs' = [reqs EXCEPT ![i] =
          IF r.pc = "saved"
          THEN Send(r, 201, Created(variant, r.doc))
          ELSE SubmitCatch(r, r.err)]
  /\ UNCHANGED <<env, proc, exitCode, connect, readyState, store, nextId, clock>>

\* ------------------------------------------------------------- other routes
HasHealth(v) == v = VRender
HasTest(v) == v = VRender
HasRoot(v) == v \in {VRender, VUri}

Health(max) ==
  /\ Accepting(max)
  /\ HasHealth(variant)
  /\ \E now \in Later(clock) :
       /\ clock' = now
       /\ reqs' = Append(reqs,
            Send(NewRequest(HEALTH, EmptyBody, NoUpload), 200,
                 [status |-> "healthy",
                  database |-> IF readyState = 1 THEN "connected"
                               ELSE "disconnected",
                  timestamp |-> now]))
  /\ UNCHANGED <<env, proc, exitCode, connect, readyState, store, nextId>>

Test(max) ==
  /\ Accepting(max)
  /\ HasTest(variant)
  /\ reqs' = Append(reqs,
       Send(NewRequest(TEST, EmptyBody, NoUpload), 200,
            [message |-> "Backend is working!"]))
  /\ UNCHANGED <<env, proc, exitCode, connect, readyState, store, nextId, clock>>

Root(max) ==
  /\ Accepting(max)
  /\ HasRoot(variant)
  /\ reqs' = Append(reqs,
       Send(NewRequest(ROOT, EmptyBody, NoUpload), 200,
            [html |-> "Server is running"]))
  /\ UNCHANGED <<env, proc, exitCode, connect, readyState, store, nextId, clock>>

\* Whether a route of program v matches.
Routed(v, route) ==
  \/ route = SUBMIT
  \/ route = HEALTH /\ HasHealth(v)
  \/ route = TEST /\ HasTest(v)
  \/ route = ROOT /\ HasRoot(v)

NotFound(max) ==
  /\ Accepting(max)
  /\ \E route \in Routes :
       /\ ~Routed(variant, route)
       /\ reqs' = Append(reqs,
            NotFoundResponse(NewRequest(route, EmptyBody, NoUpload)))
  /\ UNCHANGED <<env, proc, exitCode, connect, readyState, store, nextId, clock>>

\* ------------------------------------------------------------ specification
\* Runs of up to MaxRequests concurrent requests.
Next ==
  \/ Boot
  \/ ConnectResolved
  \/ ConnectRejected
  \/ Submit(Forms, MaxRequests)
  \/ \E i \in 1..Len(reqs) : Save(i)
  \/ \E i \in 1..Len(reqs) : SubmitDone(i)
  \/ Health(MaxRequests)
  \/ Test(MaxRequests)
  \/ Root(MaxRequests)
  \/ NotFound(MaxRequests)

Spec == Init /\ [][Next]_vars

\* Runs of a single request, over every combination of the form inputs.
NextOne ==
  \/ Boot
  \/ ConnectResolved
  \/ ConnectRejected
  \/ Submit(AllForms, 1)
  \/ \E i \in 1..Len(reqs) : Save(i)
  \/ \E i \in 1..Len(reqs) : SubmitDone(i)
  \/ Health(1)
  \/ Test(1)
  \/ Root(1)
  \/ NotFound(1)

SpecOne == Init /\ [][NextOne]_vars


\* =================================================================== claims
Handled == 1..Len(reqs)
IsSubmit(r) == r.route = SUBMIT
Answered(r) == r.pc = "done"
\* The request's document is in the collection.
Persisted(r) == r.doc # NoDoc /\ \E d \in store : d._id = r.doc._id
\* The request was answered 201.
Accepted(r) == IsSubmit(r) /\ Answered(r) /\ r.status = 201
\* The response body has a key with this value.
Names(r, key, value) == key \in DOMAIN r.resBody /\ r.resBody[key] = value

\* A required field that is absent, or empty after trimming.
Missing(x) == x.kind = "undefined" \/ (IsStr(x) /\ trim(x.s) = <<>>)
\* A text field or no field: what a form sends.
Text(x) == x.kind \in {"undefined", "string"}

\* The shape the specification gives for an email: one or more non-space
\* non-@ characters, "@", the same again, ".", one or more non-space characters.
NonSpace(s) == s # <<>> /\ \A k \in 1..Len(s) : s[k] \notin WhiteSpace
SpecShape(s) ==
  \E i \in 1..Len(s) : \E j \in 1..Len(s) :
    /\ i < j
    /\ s[i] = "@"
    /\ s[j] = "."
    /\ NonSpaceNonAt(SubSeq(s, 1, i - 1))
    /\ NonSpaceNonAt(SubSeq(s, i + 1, j - 1))
    /\ NonSpace(SubSeq(s, j + 1, Len(s)))

\* The upload the request carries is one multer refuses: over the size limit
\* where one is set, or a file in a field other than "resume".
BadUpload(r) ==
  /\ IsSubmit(r)
  /\ r.upload.kind = "file"
  /\ \/ r.upload.fieldname # "resume"
     \/ MemoryStorage(variant) /\ r.upload.size > fileSize

\* multer passed the request on to the handler.
Uploaded(r) == r.err.name \notin {"MulterError", "Error"}
\* Every field of the form is text or absent.
TextForm(r) ==
  /\ Text(r.body.name) /\ Text(r.body.email)
  /\ Text(r.body.mobile) /\ Text(r.body.message)
\* save() was called and rejected.
SaveRejected(r) == r.doc # NoDoc /\ r.err # NoErr

\* C1: a POST /api/submit whose name or email is absent or empty after
\* trimming is answered 400 with the missing field named, and leaves no
\* document in the collection. Stated for forms of text fields whose upload,
\* if any, went through.
C1_MissingFieldRejected ==
  \A i \in Handled :
    LET r == reqs[i]
    IN ( /\ IsSubmit(r) /\ TextForm(r) /\ Uploaded(r)
         /\ (Missing(r.body.name) \/ Missing(r.body.email)) ) =>
         /\ ~Persisted(r)
         /\ Answered(r) =>
              /\ r.status = 400
              /\ \/ Missing(r.body.name) /\ Names(r, "field", "name")
                 \/ Missing(r.body.email) /\ Names(r, "field", "email")

\* C2: a POST /api/submit whose email does not have the local@domain.tld
\* shape is answered 400 citing the field email, and leaves no document in
\* the collection. Stated for forms of text fields with a name, whose upload,
\* if any, went through.
C2_MalformedEmailRejected ==
  \A i \in Handled :
    LET r == reqs[i]
    IN ( /\ IsSubmit(r) /\ TextForm(r) /\ Uploaded(r)
         /\ ~Missing(r.body.name)
         /\ IsStr(r.body.email) /\ ~SpecShape(r.body.email.s) ) =>
         /\ ~Persisted(r)
         /\ Answered(r) => (r.status = 400 /\ Names(r, "field", "email"))

\* C3: a valid POST /api/submit without a file, whose save the store does
\* not reject, is answered 201 with success = true and the identifier of the
\* new document, which is by then in the collection with no resume. Stated
\* for the emails that have the shape both as the specification words it and
\* as the program's regular expression has it.
C3_ValidRequestCreated ==
  \A i \in Handled :
    LET r == reqs[i]
    IN ( /\ IsSubmit(r) /\ TextForm(r)
         /\ ~Missing(r.body.name) /\ ~Missing(r.body.email)
         /\ SpecShape(r.body.email.s) /\ emailRegex(r.body.email.s)
         /\ r.upload.kind = "none"
         /\ r.err = NoErr
         /\ Answered(r) ) =>
         /\ r.status = 201
         /\ Persisted(r)
         /\ \A d \in store :
              d._id = r.doc._id =>
                \/ "resume" \in DOMAIN d /\ d.resume = Undefined
                \/ "resumePath" \in DOMAIN d /\ d.resumePath = Str(<<>>)
         /\ Names(r, "success", TRUE)
         /\ Names(r, "submissionId", r.doc._id)

\* The specification's wording of the email shape is wider than the
\* program's expression: the last part may hold an "@".
PatternGap ==
  LET s == <<"j", "@", "e", ".", "c", "@">>
  IN SpecShape(s) /\ ~emailRegex(s)

\* What the claims expect the stored text of a field to be.
Expected(x) == IF IsStr(x) THEN Str(trim(x.s)) ELSE Str(<<>>)

\* C5: the document of an accepted request holds the trimmed name, email,
\* mobile and message as submitted ("" for a mobile or message not supplied)
\* and, for an attached file, its name, content type and bytes, or its path
\* on disk. Stated for forms of text fields with a name and an email.
C5_RoundTrip ==
  \A i \in Handled :
    LET r == reqs[i]
    IN ( /\ Accepted(r) /\ TextForm(r)
         /\ ~Missing(r.body.name) /\ ~Missing(r.body.email) ) =>
         \E d \in store :
           /\ d._id = r.doc._id
           /\ d.name = Expected(r.body.name)
           /\ d.email = Expected(r.body.email)
           /\ d.mobile = Expected(r.body.mobile)
           /\ d.message = Expected(r.body.message)
           /\ r.upload.kind = "file" =>
                IF MemoryStorage(variant)
                THEN d.resume = [kind |-> "file", data |-> r.upload.buffer,
                                 contentType |-> r.upload.mimetype,
                                 originalName |-> r.upload.originalname]
                ELSE /\ d.resumePath.kind = "path"
                     /\ d.resumePath.path.name = r.upload.originalname

\* C8: a save that fails is answered 400 with the offending fields when the
\* failure is a validation rejection and 500 otherwise, the error's own text
\* appearing only in development mode; no document is persisted either way.
C8_SaveFailure ==
  \A i \in Handled :
    LET r == reqs[i]
    IN (IsSubmit(r) /\ SaveRejected(r)) =>
         /\ ~Persisted(r)
         /\ Answered(r) =>
              IF r.err.name = "ValidationError"
              THEN r.status = 400 /\ Names(r, "fields", r.err.errors)
              ELSE /\ r.status = 500
                   /\ Names(r, "details", r.err.message) => Development


\* C4: POST /api/submit is not idempotent. Any two accepted requests, the
\* same form sent twice included, have two documents with two identifiers in
\* the collection, and a request whose save went through is answered 201.
C4_NotIdempotent ==
  /\ \A i \in Handled : \A j \in Handled :
       (i # j /\ Accepted(reqs[i]) /\ Accepted(reqs[j])) =>
         /\ reqs[i].doc._id # reqs[j].doc._id
         /\ Persisted(reqs[i]) /\ Persisted(reqs[j])
  /\ \A i \in Handled :
       (IsSubmit(reqs[i]) /\ Answered(reqs[i]) /\ reqs[i].doc # NoDoc
          /\ reqs[i].err = NoErr) => reqs[i].status = 201
  /\ Cardinality(store) >= Cardinality({i \in Handled : Accepted(reqs[i])})

\* The same form was accepted twice and both documents are stored.
C4_Witness ==
  \E i \in Handled : \E j \in Handled :
    /\ i < j
    /\ Accepted(reqs[i]) /\ Accepted(reqs[j])
    /\ reqs[i].body = reqs[j].body /\ reqs[i].upload = reqs[j].upload
    /\ Cardinality(store) = 2

\* Identifiers are unique in the collection.
UniqueIds == \A d \in store : \A e \in store : d._id = e._id => d = e

\* A step keeps every document as it is, and adds at most the one document
\* of a POST /api/submit whose save goes through.
StoreGrows ==
  /\ store \subseteq store'
  /\ store' # store =>
       \E i \in Handled :
         /\ IsSubmit(reqs[i])
         /\ reqs[i].pc = "saving" /\ reqs'[i].pc = "saved"
         /\ reqs[i].doc \notin store
         /\ store' = store \cup {reqs[i].doc}

\* C6: a persisted Submission is immutable and never destroyed; the
\* collection only grows, one document for each successful POST /api/submit.
C6_Immutable == []UniqueIds /\ [][StoreGrows]_vars

\* A document was stored and another request was answered after it.
C6_Witness ==
  /\ Len(reqs) = 2
  /\ Accepted(reqs[1]) /\ Persisted(reqs[1])
  /\ Answered(reqs[2]) /\ reqs[2].status # 201

\* Every request has at most one response, and exactly one once handled.
OneResponse ==
  \A i \in Handled :
    /\ reqs[i].sent <= 1
    /\ Answered(reqs[i]) <=> reqs[i].sent = 1
    /\ Answered(reqs[i]) => reqs[i].status \in {200, 201, 400, 404, 500}

\* The process exits only from the startup script's MONGO_URI check or from
\* the rejection of the initial connection, with code 1.
ExitOnlyAtStartup ==
  (proc # "exited" /\ proc' = "exited") =>
    /\ exitCode' = 1
    /\ \/ proc = "boot" /\ ~MONGO_URI
       \/ connect = "pending" /\ connect' = "rejected"

\* C7: every per-request error becomes exactly one response of that request,
\* and nothing but a startup failure ends the process.
C7_ErrorsContained == []OneResponse /\ [][ExitOnlyAtStartup]_vars

\* A request failed with a 500 and a later one was accepted.
C7_Witness ==
  /\ proc = "running"
  /\ \E i \in Handled : \E j \in Handled :
       /\ i < j
       /\ Answered(reqs[i]) /\ reqs[i].status = 500 /\ reqs[i].err # NoErr
       /\ Accepted(reqs[j])

\* C9 as stated: a refused upload is answered 400 with the field named.
C9_UploadRejected400 ==
  \A i \in Handled :
    (BadUpload(reqs[i]) /\ Answered(reqs[i])) =>
      (reqs[i].status = 400 /\ "field" \in DOMAIN reqs[i].resBody)

\* A refused upload is answered 500 by the fallback error handler, with no
\* field named, and no document is built or stored for it.
UploadRefused ==
  \A i \in Handled :
    BadUpload(reqs[i]) =>
      /\ Answered(reqs[i])
      /\ reqs[i].status = 500
      /\ "field" \notin DOMAIN reqs[i].resBody
      /\ reqs[i].doc = NoDoc

\* The step that refuses an upload leaves the process running and the
\* collection as it was.
RefusalHarmless ==
  (Len(reqs') > Len(reqs) /\ BadUpload(reqs'[Len(reqs')])) =>
    (proc' = "running" /\ store' = store)

\* C9 (amended): a POST /api/submit whose upload is over the 5 MB limit of
\* part_000, or in a field other than resume, is answered 500 by the fallback
\* error handler with no field named, persists no document, and does not
\* terminate the process.
C9_UploadRefused500 == []UploadRefused /\ [][RefusalHarmless]_vars

\* An upload over the limit and one in another field were refused.
C9_Witness ==
  \E i \in Handled :
    /\ BadUpload(reqs[i])
    /\ reqs[i].upload.fieldname = "resume"
    /\ reqs[i].upload.size > fileSize
    /\ reqs[i].status = 500

\* C10: startup is fail-fast. Once the MONGO_URI check has failed, or the
\* initial connection was rejected, the process has exited with code 1.
C10_FailFast ==
  ( \/ connect = "rejected"
    \/ ChecksUri(variant) /\ ~MONGO_URI /\ proc # "boot" ) =>
    (proc = "exited" /\ exitCode = 1)

====
